---- MODULE Spec2Model ----
(***************************************************************************)
(* Model of the collision physics task generator                          *)
(* (src/src/generator.py, src/src/config.py).                              *)
(*                                                                         *)
(* Reals are modelled exactly on integer grids:                            *)
(*   - masses in whole kg, scenario velocities in whole m/s;               *)
(*   - simulation_duration in 1/DurDen seconds;                            *)
(*   - body velocities in 1/VelUnits of a m/s and body positions in        *)
(*     1/unit of a metre, unit = VelUnits * video_fps, so one space.step   *)
(*     moves a body by exactly its velocity number and the collision       *)
(*     impulse divides exactly;                                            *)
(*   - shape elasticity in 1/ElasticityDen.                                *)
(* Floating-point rounding is not modelled: an equality of the model is    *)
(* an equality "within tolerance" of the program.                          *)
(***************************************************************************)
EXTENDS Integers, Sequences, FiniteSets, TLC

VARIABLES
    config,            \* TaskConfig (read-only after construction)
    encoder_available, \* VideoGenerator.is_available() of the environment
    video_generator,   \* self.video_generator: TRUE when the object exists
    pc,                \* position inside generate_task_pair
    err,               \* exception that ended generate_task_pair
    scenario,          \* collision_data
    unit,              \* position units per metre of this run
    body_a, body_b,    \* pymunk bodies: [p, v, v_bias]
    arbiter,           \* pymunk contact state of the pair: [active, jnAcc]
    trajectories,      \* the four series of _simulate_collision
    first_image,       \* what _render_initial_state drew
    final_image,       \* what _render_final_state drew
    final_frame_idx,   \* result of _find_final_frame_index (0-based)
    video_path,        \* ground_truth_video
    encoder_calls,     \* calls of create_video_from_frames
    encoder_result,    \* what create_video_from_frames returned
    prompt             \* arguments handed to get_prompt

vars == << config, encoder_available, video_generator, pc, err, scenario, unit,
           body_a, body_b, arbiter, trajectories, first_image, final_image,
           final_frame_idx, video_path, encoder_calls, encoder_result,
           prompt >>

(***************************************************************************)
(* Bounds of the model                                                     *)
(***************************************************************************)
MaxMass == 2
MaxVelocity == 3
MaxDuration == 5
MaxFps == 2
DurDen == 2
MaxLen == 3

(***************************************************************************)
(* Program constants                                                       *)
(***************************************************************************)
ball_radius_base == 30
pixels_per_meter == 50
image_width == 800
world_width == 14
separation_threshold == 2
start_pos_a == 2
start_pos_b == 12
last_resort_offset == 10
ElasticityDen == 2
solver_iterations == 10

None == "None"

Abs(x) == IF x < 0 THEN -x ELSE x

Max(x, y) == IF x >= y THEN x ELSE y

Min(x, y) == IF x <= y THEN x ELSE y

(***************************************************************************)
(* Configuration                                                           *)
(***************************************************************************)
CollisionTypes == {"elastic", "inelastic"}

Configs ==
    { c \in [ min_mass : 1..MaxMass, max_mass : 1..MaxMass,
              min_velocity : 1..MaxVelocity, max_velocity : 1..MaxVelocity,
              collision_type : CollisionTypes,
              video_fps : 1..MaxFps,
              simulation_duration : 1..MaxDuration,
              generate_videos : BOOLEAN ] :
        c.min_mass <= c.max_mass /\ c.min_velocity <= c.max_velocity }

\* random.uniform(lo, hi) on the integer grid
Uniform(lo, hi) == lo..hi

(***************************************************************************)
(* _mass_to_radius: int(min_radius + (max_radius - min_radius) * ratio),   *)
(* min_radius = 0.7 base, max_radius = 1.3 base,                           *)
(* ratio = (mass - min_mass) / (max_mass - min_mass).                      *)
(* The division raises ZeroDivisionError when max_mass = min_mass.         *)
(***************************************************************************)
MassToRadiusRaises(cfg) == cfg.max_mass - cfg.min_mass = 0

MassToRadius(mass, cfg) ==
    LET span == cfg.max_mass - cfg.min_mass
    IN  (7 * ball_radius_base * span + 6 * ball_radius_base * (mass - cfg.min_mass))
            \div (10 * span)

\* mutant of VelocityB: the sign is lost
VelocityB_NoNegation(u) == u

\* velocity_b = -random.uniform(min_velocity, max_velocity)
VelocityB(u) == -u

\* velocity_a = random.uniform(min_velocity, max_velocity)
VelocityA(u) == u

Scenarios(cfg) ==
    { [ populated |-> TRUE, mass_a |-> ma, mass_b |-> mb,
        velocity_a |-> VelocityA(ua), velocity_b |-> VelocityB(ub),
        radius_a |-> MassToRadius(ma, cfg), radius_b |-> MassToRadius(mb, cfg),
        pos_a |-> start_pos_a, pos_b |-> start_pos_b ] :
        ma \in Uniform(cfg.min_mass, cfg.max_mass),
        mb \in Uniform(cfg.min_mass, cfg.max_mass),
        ua \in Uniform(cfg.min_velocity, cfg.max_velocity),
        ub \in Uniform(cfg.min_velocity, cfg.max_velocity) }

(***************************************************************************)
(* Units                                                                   *)
(***************************************************************************)
\* body velocity units per m/s: the impulse divides by mass_a + mass_b and the
\* bounce of a persisting contact by ElasticityDen^4
VelUnits(scn) ==
    ElasticityDen * ElasticityDen * ElasticityDen * ElasticityDen
        * (scn.mass_a + scn.mass_b)

\* position units per metre: dt = 1 / video_fps
PosUnits(scn, cfg) == VelUnits(scn) * cfg.video_fps

\* Python's round on the rational num / den: to nearest, ties to even
PyRound(num, den) ==
    LET q == num \div den
        r == num % den
    IN  IF 2 * r < den THEN q
        ELSE IF 2 * r > den THEN q + 1
        ELSE IF q % 2 = 0 THEN q ELSE q + 1

\* mutant of NumSteps: round instead of int
NumSteps_Round(cfg) == PyRound(cfg.simulation_duration * cfg.video_fps, DurDen)

\* num_steps = int(simulation_duration * video_fps)
NumSteps(cfg) == (cfg.simulation_duration * cfg.video_fps) \div DurDen

\* mutant of ShapeElasticity: every collision type gets 0.5
ShapeElasticity_AlwaysHalf(collision_type) == ElasticityDen \div 2

\* shape.elasticity = 1.0 if collision_type == "elastic" else 0.5
ShapeElasticity(collision_type) ==
    IF collision_type = "elastic" THEN ElasticityDen ELSE ElasticityDen \div 2

EmptyTrajectories ==
    [ positions_a |-> << >>, positions_b |-> << >>,
      velocities_a |-> << >>, velocities_b |-> << >> ]

NoBody == [ p |-> 0, v |-> 0, v_bias |-> 0 ]

NoArbiter == [ active |-> FALSE, jnAcc |-> 0 ]

NoImage == [ drawn |-> FALSE ]

NoScenario == [ populated |-> FALSE ]

NoPrompt == [ built |-> FALSE ]

\* a "for" scan that ends without returning
NoIndex == -1

(***************************************************************************)
(* space.step(dt) for the two circles (pymunk / Chipmunk):                 *)
(*   1. every body moves by (velocity + bias velocity) * dt, and the bias  *)
(*      velocity is reset;                                                 *)
(*   2. the circles collide when the centre distance is below the sum of   *)
(*      the radii (in metres); the normal points from A to B;              *)
(*   3. the arbiter's restitution is the product of the two shapes'        *)
(*      elasticities; bounce = normal relative velocity * restitution;     *)
(*   4. a persisting contact first re-applies its cached impulse;          *)
(*   5. the solver runs its iterations, each clamping the accumulated      *)
(*      normal impulse at 0;                                               *)
(*   6. penetration is corrected through a bias velocity that moves the    *)
(*      bodies apart in the next step and never enters body.velocity.      *)
(* Impulses are kept divided by the contact's effective mass, i.e. as the  *)
(* change of normal relative velocity they cause.                          *)
(***************************************************************************)
\* e of the arbiter, in 1/(ElasticityDen * ElasticityDen)
ArbiterElasticity(ea, eb) == ea * eb

Overlap(pa, pb, scn, u) ==
    Abs(pb - pa) * pixels_per_meter < (scn.radius_a + scn.radius_b) * u

Normal(pa, pb) == IF pb - pa < 0 THEN -1 ELSE 1

\* apply_impulses: body A gets -j/m_a, body B gets +j/m_b along the normal
ImpulseOnA(va, d, n, scn) == va - (d * n * scn.mass_b) \div (scn.mass_a + scn.mass_b)

\* mutant of ImpulseOnB: the impulse is weighted with the wrong mass
ImpulseOnB_WrongMass(vb, d, n, scn) ==
    vb + (d * n * scn.mass_b) \div (scn.mass_a + scn.mass_b)

ImpulseOnB(vb, d, n, scn) == vb + (d * n * scn.mass_a) \div (scn.mass_a + scn.mass_b)

\* cpArbiterApplyImpulse, one solver iteration on s = [va, vb, jnAcc]
ApplyImpulse(s, n, bounce, scn) ==
    LET vrn   == (s.vb - s.va) * n
        jn    == -(bounce + vrn)
        jnNew == Max(s.jnAcc + jn, 0)
        d     == jnNew - s.jnAcc
    IN  [ va |-> ImpulseOnA(s.va, d, n, scn),
          vb |-> ImpulseOnB(s.vb, d, n, scn),
          jnAcc |-> jnNew ]

RECURSIVE Solve(_, _, _, _, _)
Solve(k, s, n, bounce, scn) ==
    IF k = 0 THEN s
    ELSE Solve(k - 1, ApplyImpulse(s, n, bounce, scn), n, bounce, scn)

\* velocities and cached impulse after the contact of one step
ResolveContact(va, vb, n, arb, e, scn) ==
    LET bounce == (((vb - va) * n) * e) \div (ElasticityDen * ElasticityDen)
        cached == IF arb.active THEN arb.jnAcc ELSE 0
        warm   == [ va |-> ImpulseOnA(va, cached, n, scn),
                    vb |-> ImpulseOnB(vb, cached, n, scn),
                    jnAcc |-> cached ]
    IN  Solve(solver_iterations, warm, n, bounce, scn)

\* penetration depth in position units
Penetration(pa, pb, scn, u) ==
    ((scn.radius_a + scn.radius_b) * u - Abs(pb - pa) * pixels_per_meter)
        \div pixels_per_meter

\* The correction is a float-valued fraction of the penetration; the model
\* lets it be none or half of it, shared in inverse proportion to the masses.
BiasPushes(pa, pb, scn, u) ==
    { 0, Penetration(pa, pb, scn, u) \div (2 * (scn.mass_a + scn.mass_b)) }

(***************************************************************************)
(* _find_final_frame_index.  Indices are 0-based as in the program; the    *)
(* series are TLA+ sequences, so index i reads element i + 1.              *)
(***************************************************************************)
\* distances = [abs(positions_b[i] - positions_a[i]) ...]
Distances(positions_a, positions_b) ==
    [ i \in 1..Len(positions_a) |-> Abs(positions_b[i] - positions_a[i]) ]

\* min(distances)
SeqMin(s) ==
    CHOOSE x \in { s[i] : i \in 1..Len(s) } : \A j \in 1..Len(s) : x <= s[j]

RECURSIVE IndexOf(_, _, _)
\* list.index(x): the first position holding x, scanning from i
IndexOf(s, x, i) == IF s[i + 1] = x THEN i ELSE IndexOf(s, x, i + 1)

\* mutant of CollisionIdx: the scans start at the first frame
CollisionIdx_FromStart(positions_a, positions_b) == 0

\* collision_idx = distances.index(min(distances))
CollisionIdx(positions_a, positions_b) ==
    LET d == Distances(positions_a, positions_b)
    IN  IndexOf(d, SeqMin(d), 0)

\* radius_margin <= pos <= world_width - radius_margin,
\* radius_margin = radius / pixels_per_meter, pos in 1/u metres
InFrame(radius, pos, u) ==
    /\ radius * u <= pos * pixels_per_meter
    /\ pos * pixels_per_meter <= (world_width * pixels_per_meter - radius) * u

\* mutant of WellSeparated: strict comparison
WellSeparated_Strict(pos_a, pos_b, u) ==
    Abs(pos_b - pos_a) > separation_threshold * u

\* distance >= separation_threshold
WellSeparated(pos_a, pos_b, u) ==
    Abs(pos_b - pos_a) >= separation_threshold * u

BothInFrame(scn, positions_a, positions_b, i, u) ==
    /\ InFrame(scn.radius_a, positions_a[i + 1], u)
    /\ InFrame(scn.radius_b, positions_b[i + 1], u)

RECURSIVE ForwardScan(_, _, _, _, _)
\* for i in range(collision_idx, len(positions_a)): ... return i
ForwardScan(i, scn, positions_a, positions_b, u) ==
    IF i >= Len(positions_a) THEN NoIndex
    ELSE IF /\ BothInFrame(scn, positions_a, positions_b, i, u)
            /\ WellSeparated(positions_a[i + 1], positions_b[i + 1], u)
         THEN i
         ELSE ForwardScan(i + 1, scn, positions_a, positions_b, u)

\* mutant of BackwardScan: the scan runs forward and returns the earliest
\* in-bounds index after collision_idx
BackwardScan_Earliest(i, collision_idx, scn, positions_a, positions_b, u) ==
    LET S == { j \in (collision_idx + 1)..i :
                 BothInFrame(scn, positions_a, positions_b, j, u) }
    IN  IF S = {} THEN NoIndex
        ELSE CHOOSE j \in S : \A k \in S : j <= k

RECURSIVE BackwardScan(_, _, _, _, _, _)
\* for i in range(len(positions_a) - 1, collision_idx, -1): ... return i
BackwardScan(i, collision_idx, scn, positions_a, positions_b, u) ==
    IF i <= collision_idx THEN NoIndex
    ELSE IF BothInFrame(scn, positions_a, positions_b, i, u)
         THEN i
         ELSE BackwardScan(i - 1, collision_idx, scn, positions_a, positions_b, u)

\* mutant of LastResort: the last frame is used whatever the offset
LastResort_LastFrame(collision_idx, n) == n - 1

\* mutant of LastResort: the clamp to the last index is lost
LastResort_NoClamp(collision_idx, n) == collision_idx + last_resort_offset

\* return min(collision_idx + 10, len(positions_a) - 1)
LastResort(collision_idx, n) == Min(collision_idx + last_resort_offset, n - 1)

FindFinalFrameIndex(scn, positions_a, positions_b, u) ==
    LET n   == Len(positions_a)
        ci  == CollisionIdx(positions_a, positions_b)
        fwd == ForwardScan(ci, scn, positions_a, positions_b, u)
        bwd == BackwardScan(n - 1, ci, scn, positions_a, positions_b, u)
    IN  IF fwd # NoIndex THEN fwd
        ELSE IF bwd # NoIndex THEN bwd
        ELSE LastResort(ci, n)

\* _meters_to_pixels: (meters / world_width) * width, as the numerator over
\* world_width * u
MetersToPixels(pos) == pos * image_width

(***************************************************************************)
(* generate_task_pair, step by step                                        *)
(***************************************************************************)
\* mutant of InitVideoGenerator: availability is not asked
InitVideoGenerator_NoAvailabilityCheck(cfg, available) == cfg.generate_videos

\* __init__: if config.generate_videos and VideoGenerator.is_available()
InitVideoGenerator(cfg, available) == cfg.generate_videos /\ available

\* generate_task_pair: if self.config.generate_videos and self.video_generator
VideoRequested(cfg, generator) == cfg.generate_videos /\ generator

Init ==
    /\ config \in Configs
    /\ encoder_available \in BOOLEAN
    /\ video_generator = FALSE
    /\ pc = "construct"
    /\ err = None
    /\ scenario = NoScenario
    /\ unit = 1
    /\ body_a = NoBody
    /\ body_b = NoBody
    /\ arbiter = NoArbiter
    /\ trajectories = EmptyTrajectories
    /\ first_image = NoImage
    /\ final_image = NoImage
    /\ final_frame_idx = NoIndex
    /\ video_path = None
    /\ encoder_calls = 0
    /\ encoder_result = "not called"
    /\ prompt = NoPrompt

\* CollisionPhysicsGenerator.__init__
Construct ==
    /\ pc = "construct"
    /\ video_generator' = InitVideoGenerator(config, encoder_available)
    /\ pc' = "scenario"
    /\ UNCHANGED << config, encoder_available, err, scenario, unit, body_a, body_b,
                    arbiter, trajectories, first_image, final_image,
                    final_frame_idx, video_path, encoder_calls, encoder_result, prompt >>

\* _generate_collision_scenario, ending in ZeroDivisionError
ScenarioRaises ==
    /\ pc = "scenario"
    /\ MassToRadiusRaises(config)
    /\ pc' = "error"
    /\ err' = "ZeroDivisionError"
    /\ UNCHANGED << config, encoder_available, video_generator, scenario, unit,
                    body_a, body_b, arbiter, trajectories, first_image,
                    final_image, final_frame_idx, video_path, encoder_calls, encoder_result,
                    prompt >>

\* _generate_collision_scenario, then the set-up of _simulate_collision
\* (space, bodies and shapes, the empty series)
GenerateScenario ==
    /\ pc = "scenario"
    /\ ~MassToRadiusRaises(config)
    /\ \E scn \in Scenarios(config) :
        /\ scenario' = scn
        /\ unit' = PosUnits(scn, config)
        /\ body_a' = [ p |-> scn.pos_a * PosUnits(scn, config),
                       v |-> scn.velocity_a * VelUnits(scn), v_bias |-> 0 ]
        /\ body_b' = [ p |-> scn.pos_b * PosUnits(scn, config),
                       v |-> scn.velocity_b * VelUnits(scn), v_bias |-> 0 ]
    /\ arbiter' = NoArbiter
    /\ trajectories' = EmptyTrajectories
    /\ pc' = "simulate"
    /\ UNCHANGED << config, encoder_available, video_generator, err, first_image,
                    final_image, final_frame_idx, video_path, encoder_calls, encoder_result,
                    prompt >>

\* one iteration of "for _ in range(num_steps)": space.step(dt) and the
\* four appends
SpaceStep ==
    /\ pc = "simulate"
    /\ Len(trajectories.positions_a) < NumSteps(config)
    /\ LET pa  == body_a.p + body_a.v + body_a.v_bias
           pb  == body_b.p + body_b.v + body_b.v_bias
           hit == Overlap(pa, pb, scenario, unit)
           n   == Normal(pa, pb)
           e   == ArbiterElasticity(ShapeElasticity(config.collision_type),
                                    ShapeElasticity(config.collision_type))
           s   == IF hit
                  THEN ResolveContact(body_a.v, body_b.v, n, arbiter, e, scenario)
                  ELSE [ va |-> body_a.v, vb |-> body_b.v, jnAcc |-> 0 ]
       IN  /\ \E k \in (IF hit THEN BiasPushes(pa, pb, scenario, unit) ELSE {0}) :
                /\ body_a' = [ p |-> pa, v |-> s.va,
                               v_bias |-> -(k * scenario.mass_b * n) ]
                /\ body_b' = [ p |-> pb, v |-> s.vb,
                               v_bias |-> k * scenario.mass_a * n ]
           /\ arbiter' = [ active |-> hit, jnAcc |-> s.jnAcc ]
           /\ trajectories' =
                [ positions_a  |-> Append(trajectories.positions_a, pa),
                  positions_b  |-> Append(trajectories.positions_b, pb),
                  velocities_a |-> Append(trajectories.velocities_a, s.va),
                  velocities_b |-> Append(trajectories.velocities_b, s.vb) ]
    /\ UNCHANGED << config, encoder_available, video_generator, pc, err, scenario,
                    unit, first_image, final_image, final_frame_idx, video_path,
                    encoder_calls, encoder_result, prompt >>

\* mutant of InitialPixelsA: the first image is drawn from trajectory step 0
InitialPixelsA_FromTrajectory(scn, traj, u) ==
    IF Len(traj.positions_a) > 0 THEN MetersToPixels(traj.positions_a[1])
    ELSE MetersToPixels(scn.pos_a * u)

\* x_a = self._meters_to_pixels(scenario["pos_a"])
InitialPixelsA(scn, traj, u) == MetersToPixels(scn.pos_a * u)

\* x_b = self._meters_to_pixels(scenario["pos_b"])
InitialPixelsB(scn, traj, u) == MetersToPixels(scn.pos_b * u)

\* _simulate_collision returns; _render_initial_state(collision_data)
RenderInitialState ==
    /\ pc = "simulate"
    /\ Len(trajectories.positions_a) = NumSteps(config)
    /\ first_image' = [ drawn |-> TRUE,
                        x_a |-> InitialPixelsA(scenario, trajectories, unit),
                        x_b |-> InitialPixelsB(scenario, trajectories, unit),
                        velocity_a |-> scenario.velocity_a * VelUnits(scenario),
                        velocity_b |-> scenario.velocity_b * VelUnits(scenario) ]
    /\ pc' = "render_final"
    /\ UNCHANGED << config, encoder_available, video_generator, err, scenario, unit,
                    body_a, body_b, arbiter, trajectories, final_image,
                    final_frame_idx, video_path, encoder_calls, encoder_result, prompt >>

\* _render_final_state on an empty trajectory: min(distances) raises ValueError
RenderFinalRaises ==
    /\ pc = "render_final"
    /\ Len(trajectories.positions_a) = 0
    /\ pc' = "error"
    /\ err' = "ValueError"
    /\ UNCHANGED << config, encoder_available, video_generator, scenario, unit,
                    body_a, body_b, arbiter, trajectories, first_image,
                    final_image, final_frame_idx, video_path, encoder_calls, encoder_result,
                    prompt >>

\* _render_final_state(collision_data, trajectories)
RenderFinalState ==
    /\ pc = "render_final"
    /\ Len(trajectories.positions_a) > 0
    /\ LET idx == FindFinalFrameIndex(scenario, trajectories.positions_a,
                                      trajectories.positions_b, unit)
       IN  /\ final_frame_idx' = idx
           /\ final_image' =
                [ drawn |-> TRUE,
                        x_a |-> MetersToPixels(trajectories.positions_a[idx + 1]),
                  x_b |-> MetersToPixels(trajectories.positions_b[idx + 1]),
                  velocity_a |-> trajectories.velocities_a[idx + 1],
                  velocity_b |-> trajectories.velocities_b[idx + 1] ]
    /\ pc' = "video"
    /\ UNCHANGED << config, encoder_available, video_generator, err, scenario, unit,
                    body_a, body_b, arbiter, trajectories, first_image, video_path,
                    encoder_calls, encoder_result, prompt >>

\* return str(result) if result else None
VideoPath(result) == IF result # None THEN "str(file)" ELSE None

PromptArgs ==
    [ built |-> TRUE,
      mass_a |-> scenario.mass_a, velocity_a |-> scenario.velocity_a,
      mass_b |-> scenario.mass_b, velocity_b |-> scenario.velocity_b,
      collision_type |-> config.collision_type ]

\* the video is requested: _generate_video calls the encoder, whose result is a
\* path or nothing; then get_prompt and the TaskPair
GenerateVideoAndReturn ==
    /\ pc = "video"
    /\ VideoRequested(config, video_generator)
    /\ encoder_calls' = encoder_calls + 1
    /\ \E result \in {"file", None} :
        /\ encoder_result' = result
        /\ video_path' = VideoPath(result)
    /\ prompt' = PromptArgs
    /\ pc' = "done"
    /\ UNCHANGED << config, encoder_available, video_generator, err, scenario, unit,
                    body_a, body_b, arbiter, trajectories, first_image,
                    final_image, final_frame_idx >>

\* no video is requested: video_path stays None; then get_prompt and the TaskPair
SkipVideoAndReturn ==
    /\ pc = "video"
    /\ ~VideoRequested(config, video_generator)
    /\ video_path' = None
    /\ prompt' = PromptArgs
    /\ pc' = "done"
    /\ UNCHANGED << config, encoder_available, video_generator, err, scenario, unit,
                    body_a, body_b, arbiter, trajectories, first_image,
                    final_image, final_frame_idx, encoder_calls, encoder_result >>

Next ==
    \/ Construct
    \/ ScenarioRaises
    \/ GenerateScenario
    \/ SpaceStep
    \/ RenderInitialState
    \/ RenderFinalRaises
    \/ RenderFinalState
    \/ GenerateVideoAndReturn
    \/ SkipVideoAndReturn

Spec == Init /\ [][Next]_vars

(***************************************************************************)
(* _find_final_frame_index on arbitrary series.  The inputs are drawn in   *)
(* InitFrame: a head of 1..MaxLen arbitrary frames, possibly followed by   *)
(* PadLen repetitions of its last frame; positions are in 1/FrameUnit of a *)
(* metre; the radii are those of the lightest and the heaviest ball.       *)
(***************************************************************************)
FrameUnit == 2
PadLen == 11

FramePositionsA == {0, 1, 4}

FramePositionsB == {4, 8, 30}

FrameRadii == { (7 * ball_radius_base) \div 10, (13 * ball_radius_base) \div 10 }

RECURSIVE Repeat(_, _)
Repeat(x, k) == IF k = 0 THEN << >> ELSE << x >> \o Repeat(x, k - 1)

Padded(s, k) == s \o Repeat(s[Len(s)], k)

FrameConfig ==
    [ min_mass |-> 1, max_mass |-> MaxMass, min_velocity |-> 1,
      max_velocity |-> MaxVelocity, collision_type |-> "elastic",
      video_fps |-> 1, simulation_duration |-> 1, generate_videos |-> FALSE ]

InitFrame ==
    /\ config = FrameConfig
    /\ encoder_available = FALSE
    /\ video_generator = FALSE
    /\ pc = "frame"
    /\ err = None
    /\ \E ra \in FrameRadii, rb \in FrameRadii :
        scenario = [ populated |-> TRUE, mass_a |-> 1, mass_b |-> 1,
                     velocity_a |-> 1, velocity_b |-> -1,
                     radius_a |-> ra, radius_b |-> rb,
                     pos_a |-> start_pos_a, pos_b |-> start_pos_b ]
    /\ unit = FrameUnit
    /\ body_a = NoBody
    /\ body_b = NoBody
    /\ arbiter = NoArbiter
    /\ \E n \in 1..MaxLen, k \in {0, PadLen} :
        \E sa \in [ 1..n -> FramePositionsA ], sb \in [ 1..n -> FramePositionsB ] :
            trajectories = [ positions_a |-> Padded(sa, k),
                             positions_b |-> Padded(sb, k),
                             velocities_a |-> Padded([ i \in 1..n |-> 0 ], k),
                             velocities_b |-> Padded([ i \in 1..n |-> 0 ], k) ]
    /\ first_image = NoImage
    /\ final_image = NoImage
    /\ final_frame_idx = NoIndex
    /\ video_path = None
    /\ encoder_calls = 0
    /\ encoder_result = "not called"
    /\ prompt = NoPrompt

\* final_frame_idx = self._find_final_frame_index(scenario, trajectories)
SelectFrame ==
    /\ pc = "frame"
    /\ final_frame_idx' = FindFinalFrameIndex(scenario, trajectories.positions_a,
                                              trajectories.positions_b, unit)
    /\ pc' = "frame_done"
    /\ UNCHANGED << config, encoder_available, video_generator, err, scenario, unit,
                    body_a, body_b, arbiter, trajectories, first_image,
                    final_image, video_path, encoder_calls, encoder_result,
                    prompt >>

NextFrame == SelectFrame

SpecFrame == InitFrame /\ [][NextFrame]_vars

(***************************************************************************)
(* Properties                                                              *)
(***************************************************************************)
FrameLen == Len(trajectories.positions_a)

FrameDist(i) == Abs(trajectories.positions_b[i + 1] - trajectories.positions_a[i + 1])

\* the first index of closest approach, stated without the scan
ClosestIdx ==
    CHOOSE i \in 0..(FrameLen - 1) :
        /\ \A j \in 0..(FrameLen - 1) : FrameDist(i) <= FrameDist(j)
        /\ \A j \in 0..(i - 1) : FrameDist(j) > FrameDist(i)

FrameVisible(i) ==
    /\ scenario.radius_a * unit <= trajectories.positions_a[i + 1] * pixels_per_meter
    /\ trajectories.positions_a[i + 1] * pixels_per_meter
           <= (world_width * pixels_per_meter - scenario.radius_a) * unit
    /\ scenario.radius_b * unit <= trajectories.positions_b[i + 1] * pixels_per_meter
    /\ trajectories.positions_b[i + 1] * pixels_per_meter
           <= (world_width * pixels_per_meter - scenario.radius_b) * unit

\* indices from the closest approach on that are in bounds and separated by
\* at least 2.0 m
Qualifying ==
    { i \in ClosestIdx..(FrameLen - 1) :
        FrameVisible(i) /\ FrameDist(i) >= separation_threshold * unit }

\* C1: for every scenario and every series of length N >= 1,
\* _find_final_frame_index returns an integer i with 0 <= i < N.
C1_IndexInRange ==
    pc = "frame_done" => (0 <= final_frame_idx /\ final_frame_idx < FrameLen)

\* C1 witness: no frame is in bounds, so the last resort decides, on a series
\* longer than the last-resort offset
C1_Witness ==
    /\ pc = "frame_done"
    /\ FrameLen > last_resort_offset + 1
    /\ \A i \in 0..(FrameLen - 1) : ~FrameVisible(i)
    /\ final_frame_idx < FrameLen - 1

\* C2: whenever some index i >= collision_idx is in bounds and separated by at
\* least 2.0 m, _find_final_frame_index returns the smallest such index.
C2_EarliestQualifying ==
    (pc = "frame_done" /\ Qualifying # {}) =>
        /\ final_frame_idx \in Qualifying
        /\ \A i \in Qualifying : final_frame_idx <= i

\* C2 witness: two indices qualify, the earlier one lies after the closest
\* approach and is separated by exactly the threshold
C2_Witness ==
    /\ pc = "frame_done"
    /\ Cardinality(Qualifying) >= 2
    /\ final_frame_idx > ClosestIdx
    /\ FrameDist(final_frame_idx) = separation_threshold * unit
    /\ final_frame_idx < FrameLen - 1

\* C3: every scenario returned by _generate_collision_scenario has
\* velocity_a > 0, velocity_b < 0 and pos_a < pos_b.
C3_ApproachGuarantee ==
    (pc \in {"simulate", "render_final", "video", "done"} /\ scenario.populated) =>
        /\ scenario.velocity_a > 0
        /\ scenario.velocity_b < 0
        /\ scenario.pos_a < scenario.pos_b

\* C3 witness: a scenario was returned under a one-point velocity range
C3_Witness ==
    /\ pc = "simulate"
    /\ scenario.populated
    /\ config.min_velocity = config.max_velocity
    /\ scenario.velocity_b = -config.max_velocity

\* _simulate_collision has returned its trajectory
SimReturned ==
    \/ pc \in {"render_final", "video", "done"}
    \/ pc = "error" /\ err = "ValueError"

Steps == Len(trajectories.velocities_a)

Momentum(i) ==
    scenario.mass_a * trajectories.velocities_a[i]
        + scenario.mass_b * trajectories.velocities_b[i]

\* twice the kinetic energy
Energy2(i) ==
    scenario.mass_a * trajectories.velocities_a[i] * trajectories.velocities_a[i]
        + scenario.mass_b * trajectories.velocities_b[i] * trajectories.velocities_b[i]

RelativeSpeed(i) == Abs(trajectories.velocities_b[i] - trajectories.velocities_a[i])

\* the bodies' velocities changed between the first and the last recorded step
Collided ==
    /\ Steps >= 1
    /\ trajectories.velocities_a[Steps] # trajectories.velocities_a[1]

\* C4: for every returned trajectory, elastic or inelastic, total momentum at
\* the first recorded step equals total momentum at the last recorded step.
C4_MomentumConserved ==
    (SimReturned /\ Steps >= 1) => Momentum(1) = Momentum(Steps)

\* C4 witness: an inelastic collision between unequal masses has happened
C4_Witness ==
    /\ pc = "done"
    /\ Collided
    /\ config.collision_type = "inelastic"
    /\ scenario.mass_a # scenario.mass_b

\* C5: under the elastic collision type, total kinetic energy at step 0 equals
\* total kinetic energy at the last step.
C5_ElasticEnergyConserved ==
    (SimReturned /\ Steps >= 1 /\ config.collision_type = "elastic") =>
        Energy2(1) = Energy2(Steps)

\* C5 witness: an elastic collision between unequal masses has happened
C5_Witness ==
    /\ pc = "done"
    /\ Collided
    /\ config.collision_type = "elastic"
    /\ scenario.mass_a # scenario.mass_b

\* C6 (as claimed): under the inelastic type, after the contact the final
\* relative speed is 0.5 times the initial approach speed.
C6_RestitutionHalf ==
    (SimReturned /\ Collided /\ config.collision_type = "inelastic") =>
        2 * RelativeSpeed(Steps) = RelativeSpeed(1)

\* C7 (as claimed): each of the four series has round(simulation_duration *
\* video_fps) entries.
C7_LengthIsRounded ==
    SimReturned =>
        Steps = PyRound(config.simulation_duration * config.video_fps, DurDen)

\* C7 (amended): each of the four series has int(simulation_duration *
\* video_fps) entries, the product truncated: N <= product < N + 1.
C7_LengthIsTruncated ==
    SimReturned =>
        /\ Len(trajectories.positions_a) = Steps
        /\ Len(trajectories.positions_b) = Steps
        /\ Len(trajectories.velocities_b) = Steps
        /\ Steps * DurDen <= config.simulation_duration * config.video_fps
        /\ config.simulation_duration * config.video_fps < (Steps + 1) * DurDen

\* C7 witness: a trajectory was returned whose product has a fractional part
\* of 0.5 or more and rounds upward
C7_Witness ==
    /\ SimReturned
    /\ Steps >= 1
    /\ 2 * ((config.simulation_duration * config.video_fps) % DurDen) >= DurDen
    /\ PyRound(config.simulation_duration * config.video_fps, DurDen) = Steps + 1

\* the task pair carries no video
NoVideoCase ==
    \/ ~encoder_available
    \/ ~config.generate_videos
    \/ encoder_result = None

\* C8: when the encoder is unavailable, or videos are disabled, or the encoder
\* returns nothing, generate_task_pair, once it has rendered both images,
\* returns a task pair with first image, final image and prompt whose
\* ground_truth_video is None; the encoder is never called when unavailable.
C8_VideoOptional ==
    /\ [](encoder_calls > 0 => encoder_available)
    /\ []((pc = "done" /\ NoVideoCase) =>
            /\ video_path = None
            /\ first_image.drawn
            /\ final_image.drawn
            /\ prompt.built)
    /\ [][pc = "video" => pc' = "done"]_vars

\* C8 witness: videos are enabled, the encoder is unavailable, and the task
\* pair was returned without a video
C8_Witness ==
    /\ pc = "done"
    /\ config.generate_videos
    /\ ~encoder_available
    /\ video_path = None
    /\ encoder_calls = 0

\* C9 (as claimed): scenario sampling never raises and returns a populated
\* scenario whose radii lie between 0.7 and 1.3 times the base radius.
C9_SamplingNeverRaises ==
    pc \notin {"construct", "scenario"} =>
        /\ scenario.populated
        /\ 7 * ball_radius_base <= 10 * scenario.radius_a
        /\ 10 * scenario.radius_a <= 13 * ball_radius_base
        /\ 7 * ball_radius_base <= 10 * scenario.radius_b
        /\ 10 * scenario.radius_b <= 13 * ball_radius_base

\* C10 (as claimed): the first image is drawn at the positions of trajectory
\* step 0 and the final image at the positions of the chosen index.
C10_FirstImageIsStepZero ==
    pc = "done" =>
        /\ first_image.x_a = MetersToPixels(trajectories.positions_a[1])
        /\ first_image.x_b = MetersToPixels(trajectories.positions_b[1])
        /\ final_image.x_a = MetersToPixels(trajectories.positions_a[final_frame_idx + 1])
        /\ final_image.x_b = MetersToPixels(trajectories.positions_b[final_frame_idx + 1])

\* C10 (amended): the first image is drawn at the scenario's start positions
\* pos_a and pos_b, the state before the first step; trajectory step 0 lies one
\* time step later (positions[0] = pos + velocity * dt); the final image is
\* drawn at the positions of the index chosen by _find_final_frame_index.
C10_FirstImageIsScenarioStart ==
    pc = "done" =>
        /\ first_image.x_a = MetersToPixels(scenario.pos_a * unit)
        /\ first_image.x_b = MetersToPixels(scenario.pos_b * unit)
        /\ trajectories.positions_a[1]
               = scenario.pos_a * unit + scenario.velocity_a * VelUnits(scenario)
        /\ trajectories.positions_b[1]
               = scenario.pos_b * unit + scenario.velocity_b * VelUnits(scenario)
        /\ 0 <= final_frame_idx /\ final_frame_idx < Steps
        /\ final_frame_idx = FindFinalFrameIndex(scenario, trajectories.positions_a,
                                                  trajectories.positions_b, unit)
        /\ final_image.x_a = MetersToPixels(trajectories.positions_a[final_frame_idx + 1])
        /\ final_image.x_b = MetersToPixels(trajectories.positions_b[final_frame_idx + 1])

\* C10 witness: a task pair was returned after a collision, with a final frame
\* that is neither the first nor the last step
C10_Witness ==
    /\ pc = "done"
    /\ Collided
    /\ 0 < final_frame_idx
    /\ final_frame_idx < Steps - 1

\* in-bounds indices after the closest approach, whatever the separation
VisibleAfter ==
    { i \in (ClosestIdx + 1)..(FrameLen - 1) : FrameVisible(i) }

\* C11: when no index i >= collision_idx is in bounds and separated by >= 2.0,
\* but some index i > collision_idx has both bodies in bounds,
\* _find_final_frame_index returns the largest such index.
C11_LatestVisible ==
    (pc = "frame_done" /\ Qualifying = {} /\ VisibleAfter # {}) =>
        /\ final_frame_idx \in VisibleAfter
        /\ \A i \in VisibleAfter : i <= final_frame_idx

\* C11 witness: nothing qualifies, several later indices are in bounds, and
\* the one returned is not the first of them
C11_Witness ==
    /\ pc = "frame_done"
    /\ Qualifying = {}
    /\ Cardinality(VisibleAfter) >= 2
    /\ final_frame_idx > ClosestIdx + 1
    /\ FrameDist(final_frame_idx) < separation_threshold * unit

\* C12: when neither the forward scan nor the backward scan finds an index,
\* _find_final_frame_index returns min(collision_idx + 10, N - 1); when
\* collision_idx is the last index the result is N - 1.
C12_LastResortValue ==
    (pc = "frame_done" /\ Qualifying = {} /\ VisibleAfter = {}) =>
        /\ final_frame_idx =
              (IF ClosestIdx + last_resort_offset <= FrameLen - 1
               THEN ClosestIdx + last_resort_offset ELSE FrameLen - 1)
        /\ (ClosestIdx = FrameLen - 1 => final_frame_idx = FrameLen - 1)

\* C12 witness: both scans fail on a series long enough that the offset, not
\* the last index, decides
C12_Witness ==
    /\ pc = "frame_done"
    /\ Qualifying = {}
    /\ VisibleAfter = {}
    /\ ClosestIdx > 0
    /\ final_frame_idx = ClosestIdx + last_resort_offset
    /\ final_frame_idx < FrameLen - 1

\* C13: the index returned by _find_final_frame_index is never earlier than
\* the first index of closest approach, on every return path.
C13_NotBeforeClosest ==
    pc = "frame_done" => final_frame_idx >= ClosestIdx

\* C13 witness: an index before the closest approach is in bounds and
\* separated, and is passed over
C13_Witness ==
    /\ pc = "frame_done"
    /\ ClosestIdx > 0
    /\ \E i \in 0..(ClosestIdx - 1) :
          FrameVisible(i) /\ FrameDist(i) >= separation_threshold * unit
    /\ final_frame_idx >= ClosestIdx

====
